---- MODULE Spec2Model ----
(***************************************************************************)
(* 9toes: Ultimate Tic-Tac-Toe with a doubling cube.                       *)
(* The rules engine (engine.ts), the state transitions (state.ts) and the  *)
(* way a game is driven through them, as a state machine over one          *)
(* immutable GameState value.                                              *)
(***************************************************************************)
EXTENDS Integers, Sequences, FiniteSets, TLC

\* ------------------------------------------------------------------ bounds

\* Number of moves of a game that may leave the recorded game line and be
\* any legal move instead.
MaxFree == 1

\* Doubles are offered only while the cube is below this value.
MaxOfferCube == 2

\* Scheduled calls of one kind that may be waiting at the same time.
MaxCalls == 1

\* Marks on the boards up to which the view model's games are followed.
MaxMarks == 8

\* States the view model's undo history may hold.
MaxHistory == 4

\* ------------------------------------------------------------------- types

Null == "null"
Players == {"X", "O"}
Idx == 0..8

\* nextBoard === null (free choice) as an index outside 0..8
NoBoard == 9

Variants == {"classic", "tictacku"}

LINES == << <<0, 1, 2>>, <<3, 4, 5>>, <<6, 7, 8>>,
            <<0, 3, 6>>, <<1, 4, 7>>, <<2, 5, 8>>,
            <<0, 4, 8>>, <<2, 4, 6>> >>

other(p) == IF p = "X" THEN "O" ELSE "X"

\* --------------------------------------------------------- board primitives

\* indices (1..8) of the lines of LINES fully owned by one player
CompleteLines(cells) ==
    {i \in 1..8 : /\ cells[LINES[i][1]] # Null
                  /\ cells[LINES[i][1]] = cells[LINES[i][2]]
                  /\ cells[LINES[i][1]] = cells[LINES[i][3]]}

FirstOf(S) == CHOOSE i \in S : \A j \in S : i <= j

\* the lines are scanned in order, the first complete one decides
evalWinner9(cells) ==
    LET done == CompleteLines(cells)
    IN  IF done = {} THEN Null ELSE cells[LINES[FirstOf(done)][1]]

isFull9(cells) == \A i \in Idx : cells[i] # Null

\* computeLocalResult that looks for the full board first
computeLocalResultFullFirst(cells) ==
    IF isFull9(cells) THEN "D"
    ELSE evalWinner9(cells)

computeLocalResult(cells) ==
    LET w == evalWinner9(cells)
    IN  IF w # Null THEN w
        ELSE IF isFull9(cells) THEN "D"
        ELSE Null

\* the meta cells without the mapping of "D" to an empty cell
bigCellsKeepDraw(local) == [i \in Idx |-> local[i]]

\* "D" is not owned by either player for the win lines
bigCells(local) == [i \in Idx |-> IF local[i] \in Players THEN local[i] ELSE Null]

computeBigResultClassic(local) ==
    LET w == evalWinner9(bigCells(local))
    IN  IF w # Null THEN w
        ELSE IF \A i \in Idx : local[i] # Null THEN "D"
        ELSE Null

BoardsWon(local, p) == Cardinality({i \in Idx : local[i] = p})

\* first to 5 of the 9 boards
computeBigResultTictacku(local) ==
    IF BoardsWon(local, "X") >= 5 THEN "X"
    ELSE IF BoardsWon(local, "O") >= 5 THEN "O"
    ELSE IF \A i \in Idx : local[i] # Null THEN "D"
    ELSE Null

computeBigResult(local, v) ==
    IF v = "tictacku" THEN computeBigResultTictacku(local)
    ELSE computeBigResultClassic(local)

initialState ==
    [boards        |-> [b \in Idx |-> [c \in Idx |-> Null]],
     local         |-> [b \in Idx |-> Null],
     nextBoard     |-> NoBoard,
     turn          |-> "X",
     result        |-> Null,
     cubeValue     |-> 1,
     cubeOwner     |-> Null,
     pendingDouble |-> Null]

\* ---------------------------------------------------------------- legality

\* canDouble with the maximum tested as > 64
canDoubleOffByOne(s) ==
    IF s.result # Null THEN FALSE
    ELSE IF s.pendingDouble # Null THEN FALSE
    ELSE IF s.cubeValue > 64 THEN FALSE
    ELSE s.cubeOwner = Null \/ s.cubeOwner = s.turn

\* canDouble without the test of the maximum
canDoubleNoCap(s) ==
    IF s.result # Null THEN FALSE
    ELSE IF s.pendingDouble # Null THEN FALSE
    ELSE s.cubeOwner = Null \/ s.cubeOwner = s.turn

\* canDouble that does not ask who owns the cube
canDoubleAnyOwner(s) ==
    IF s.result # Null THEN FALSE
    ELSE IF s.pendingDouble # Null THEN FALSE
    ELSE s.cubeValue < 64

canDouble(s) ==
    IF s.result # Null THEN FALSE
    ELSE IF s.pendingDouble # Null THEN FALSE
    ELSE IF s.cubeValue >= 64 THEN FALSE
    ELSE s.cubeOwner = Null \/ s.cubeOwner = s.turn

Move(bi, ci) == [bi |-> bi, ci |-> ci]

\* the nine moves into board bi, cell by cell
cellMoves(bi) == [c \in 1..9 |-> Move(bi, c - 1)]

\* the inner loop without the test for an empty cell
boardMovesAnyCell(s, bi) ==
    IF s.local[bi] # Null THEN << >>
    ELSE IF s.nextBoard # NoBoard /\ s.nextBoard # bi THEN << >>
    ELSE cellMoves(bi)

\* the outer loop without the test for a decided board
boardMovesAnyBoard(s, bi) ==
    IF s.nextBoard # NoBoard /\ s.nextBoard # bi THEN << >>
    ELSE SelectSeq(cellMoves(bi), LAMBDA m : s.boards[bi][m.ci] = Null)

\* the outer loop without the forced-board test
boardMovesUnforced(s, bi) ==
    IF s.local[bi] # Null THEN << >>
    ELSE SelectSeq(cellMoves(bi), LAMBDA m : s.boards[bi][m.ci] = Null)

\* one round of the outer loop of legalMoves: the moves it pushes for board bi
boardMoves(s, bi) ==
    IF s.local[bi] # Null THEN << >>
    ELSE IF s.nextBoard # NoBoard /\ s.nextBoard # bi THEN << >>
    ELSE SelectSeq(cellMoves(bi), LAMBDA m : s.boards[bi][m.ci] = Null)

\* the list legalMoves builds, board by board and cell by cell
legalMovesFrom(s) ==
    boardMoves(s, 0) \o boardMoves(s, 1) \o boardMoves(s, 2) \o
    boardMoves(s, 3) \o boardMoves(s, 4) \o boardMoves(s, 5) \o
    boardMoves(s, 6) \o boardMoves(s, 7) \o boardMoves(s, 8)

\* legalMoves without the early return of a finished game
legalMovesGameOver(s) == legalMovesFrom(s)

legalMoves(s) == IF s.result # Null THEN << >> ELSE legalMovesFrom(s)

\* isLegalMove without the test for an occupied cell
isLegalMoveAnyCell(s, m) ==
    IF s.result # Null THEN FALSE
    ELSE IF s.local[m.bi] # Null THEN FALSE
    ELSE IF s.nextBoard # NoBoard /\ s.nextBoard # m.bi THEN FALSE
    ELSE TRUE

isLegalMove(s, m) ==
    IF s.result # Null THEN FALSE
    ELSE IF s.local[m.bi] # Null THEN FALSE
    ELSE IF s.nextBoard # NoBoard /\ s.nextBoard # m.bi THEN FALSE
    ELSE IF s.boards[m.bi][m.ci] # Null THEN FALSE
    ELSE TRUE

\* ------------------------------------------------------------- transitions

\* applyMove with the meta result carried over instead of recomputed
applyMoveStaleResult(s, m, v) ==
    LET boards == [s.boards EXCEPT ![m.bi][m.ci] = s.turn]
        local  == [s.local EXCEPT ![m.bi] = computeLocalResult(boards[m.bi])]
    IN  [boards        |-> boards,
         local         |-> local,
         nextBoard     |-> IF local[m.ci] # Null THEN NoBoard ELSE m.ci,
         turn          |-> IF s.result # Null THEN s.turn ELSE other(s.turn),
         result        |-> s.result,
         cubeValue     |-> s.cubeValue,
         cubeOwner     |-> s.cubeOwner,
         pendingDouble |-> Null]

\* applyMove with the local results carried over instead of recomputed
applyMoveStaleLocal(s, m, v) ==
    LET boards == [s.boards EXCEPT ![m.bi][m.ci] = s.turn]
        local  == s.local
        result == computeBigResult(local, v)
    IN  [boards        |-> boards,
         local         |-> local,
         nextBoard     |-> IF local[m.ci] # Null THEN NoBoard ELSE m.ci,
         turn          |-> IF result # Null THEN s.turn ELSE other(s.turn),
         result        |-> result,
         cubeValue     |-> s.cubeValue,
         cubeOwner     |-> s.cubeOwner,
         pendingDouble |-> Null]

\* applyMove that spreads the old state and so keeps a pending double
applyMoveKeepsPending(s, m, v) ==
    LET boards == [s.boards EXCEPT ![m.bi][m.ci] = s.turn]
        local  == [s.local EXCEPT ![m.bi] = computeLocalResult(boards[m.bi])]
        result == computeBigResult(local, v)
    IN  [boards        |-> boards,
         local         |-> local,
         nextBoard     |-> IF local[m.ci] # Null THEN NoBoard ELSE m.ci,
         turn          |-> IF result # Null THEN s.turn ELSE other(s.turn),
         result        |-> result,
         cubeValue     |-> s.cubeValue,
         cubeOwner     |-> s.cubeOwner,
         pendingDouble |-> s.pendingDouble]

\* applyMove that looks the target board up in the local results of before
\* the move
applyMoveOldTarget(s, m, v) ==
    LET boards == [s.boards EXCEPT ![m.bi][m.ci] = s.turn]
        local  == [s.local EXCEPT ![m.bi] = computeLocalResult(boards[m.bi])]
        result == computeBigResult(local, v)
    IN  [boards        |-> boards,
         local         |-> local,
         nextBoard     |-> IF s.local[m.ci] # Null THEN NoBoard ELSE m.ci,
         turn          |-> IF result # Null THEN s.turn ELSE other(s.turn),
         result        |-> result,
         cubeValue     |-> s.cubeValue,
         cubeOwner     |-> s.cubeOwner,
         pendingDouble |-> Null]

\* applyMove that always passes the turn
applyMoveAlwaysFlips(s, m, v) ==
    LET boards == [s.boards EXCEPT ![m.bi][m.ci] = s.turn]
        local  == [s.local EXCEPT ![m.bi] = computeLocalResult(boards[m.bi])]
        result == computeBigResult(local, v)
    IN  [boards        |-> boards,
         local         |-> local,
         nextBoard     |-> IF local[m.ci] # Null THEN NoBoard ELSE m.ci,
         turn          |-> other(s.turn),
         result        |-> result,
         cubeValue     |-> s.cubeValue,
         cubeOwner     |-> s.cubeOwner,
         pendingDouble |-> Null]

\* applyMove that drops the variant and computes the classic meta result
applyMoveClassicOnly(s, m, v) ==
    LET boards == [s.boards EXCEPT ![m.bi][m.ci] = s.turn]
        local  == [s.local EXCEPT ![m.bi] = computeLocalResult(boards[m.bi])]
        result == computeBigResultClassic(local)
    IN  [boards        |-> boards,
         local         |-> local,
         nextBoard     |-> IF local[m.ci] # Null THEN NoBoard ELSE m.ci,
         turn          |-> IF result # Null THEN s.turn ELSE other(s.turn),
         result        |-> result,
         cubeValue     |-> s.cubeValue,
         cubeOwner     |-> s.cubeOwner,
         pendingDouble |-> Null]

applyMove(s, m, v) ==
    LET boards == [s.boards EXCEPT ![m.bi][m.ci] = s.turn]
        local  == [s.local EXCEPT ![m.bi] = computeLocalResult(boards[m.bi])]
        nextBoard == IF local[m.ci] # Null THEN NoBoard ELSE m.ci
        result == computeBigResult(local, v)
    IN  [boards        |-> boards,
         local         |-> local,
         nextBoard     |-> nextBoard,
         turn          |-> IF result # Null THEN s.turn ELSE other(s.turn),
         result        |-> result,
         cubeValue     |-> s.cubeValue,
         cubeOwner     |-> s.cubeOwner,
         pendingDouble |-> Null]

\* offerDouble that records the opponent as the offerer
offerDoubleAsOther(s) ==
    IF ~canDouble(s) THEN s
    ELSE [s EXCEPT !.pendingDouble = other(s.turn)]

\* offerDouble that raises the cube with the offer
offerDoubleRaises(s) ==
    IF ~canDouble(s) THEN s
    ELSE [s EXCEPT !.pendingDouble = s.turn, !.cubeValue = s.cubeValue * 2]

offerDouble(s) ==
    IF ~canDouble(s) THEN s
    ELSE [s EXCEPT !.pendingDouble = s.turn]

\* acceptDouble that hands the cube to the offerer
acceptDoubleToDoubler(s) ==
    IF s.pendingDouble = Null THEN s
    ELSE [s EXCEPT !.cubeValue = s.cubeValue * 2,
                   !.cubeOwner = s.pendingDouble,
                   !.pendingDouble = Null]

\* acceptDouble that passes the turn to the player who accepted
acceptDoubleFlipsTurn(s) ==
    IF s.pendingDouble = Null THEN s
    ELSE [s EXCEPT !.cubeValue = s.cubeValue * 2,
                   !.cubeOwner = other(s.pendingDouble),
                   !.turn = other(s.pendingDouble),
                   !.pendingDouble = Null]

\* acceptDouble without the early return
acceptDoubleUnguarded(s) ==
    [s EXCEPT !.cubeValue = s.cubeValue * 2,
              !.cubeOwner = other(s.pendingDouble),
              !.pendingDouble = Null]

acceptDouble(s) ==
    IF s.pendingDouble = Null THEN s
    ELSE [s EXCEPT !.cubeValue = s.cubeValue * 2,
                   !.cubeOwner = other(s.pendingDouble),
                   !.pendingDouble = Null]

\* declineDouble that awards the game to the player who declined
declineDoubleToDecliner(s) ==
    IF s.pendingDouble = Null THEN s
    ELSE [s EXCEPT !.result = other(s.pendingDouble),
                   !.pendingDouble = Null]

\* declineDouble that leaves the offer in the state
declineDoubleKeepsOffer(s) ==
    IF s.pendingDouble = Null THEN s
    ELSE [s EXCEPT !.result = s.pendingDouble]

declineDouble(s) ==
    IF s.pendingDouble = Null THEN s
    ELSE [s EXCEPT !.result = s.pendingDouble,
                   !.pendingDouble = Null]

\* ------------------------------------------------------------- the AI
\* Scores are counted in half points, the unit of the open-lines term: a
\* score of the source is Pts of it here.

Pts(n) == 2 * n

Difficulties == {"easy", "medium", "hard"}

\* pickMove's null
NoMove == Move(NoBoard, NoBoard)

\* the lines of a board the player can still win
countOpenLines(cells, player) ==
    Cardinality({i \in 1..8 : \A k \in 1..3 : cells[LINES[i][k]] # other(player)})

\* the player's pieces in a line
countInLine(cells, l, player) ==
    Cardinality({k \in 1..3 : cells[l[k]] = player})

\* line.includes(i)
includes(l, i) == \E k \in 1..3 : l[k] = i

\* the board played on with the mover's mark placed
newBoard(s, m) == [s.boards[m.bi] EXCEPT ![m.ci] = s.turn]

\* the board played on with the opponent's mark placed instead
oppBoard(s, m) == [s.boards[m.bi] EXCEPT ![m.ci] = other(s.turn)]

\* the local results after the move, as scoreMove simulates them
localAfter(s, m) ==
    IF evalWinner9(newBoard(s, m)) = s.turn
    THEN [s.local EXCEPT ![m.bi] = s.turn]
    ELSE s.local

\* step 1: the move wins its board and with it the game
winsGame(s, m, v) ==
    /\ evalWinner9(newBoard(s, m)) = s.turn
    /\ computeBigResult(localAfter(s, m), v) = s.turn

\* step 2 with the meta-line bonus given once
localWinScoreOneBonus(s, m, v) ==
    IF evalWinner9(newBoard(s, m)) # s.turn THEN 0
    ELSE IF v = "tictacku" THEN Pts(120)
    ELSE LET cells == bigCells(localAfter(s, m))
         IN  Pts(100) +
             (IF \E i \in 1..8 : /\ countInLine(cells, LINES[i], s.turn) = 2
                                 /\ includes(LINES[i], m.bi)
              THEN Pts(50) ELSE 0)

\* step 2 without the points for the board itself
localWinScoreBonusOnly(s, m, v) ==
    IF evalWinner9(newBoard(s, m)) # s.turn THEN 0
    ELSE IF v = "tictacku" THEN Pts(120)
    ELSE LET cells == bigCells(localAfter(s, m))
         IN  Pts(50) *
             Cardinality({i \in 1..8 :
                 /\ countInLine(cells, LINES[i], s.turn) = 2
                 /\ includes(LINES[i], m.bi)})

\* step 2: the move wins its board
localWinScore(s, m, v) ==
    IF evalWinner9(newBoard(s, m)) # s.turn THEN 0
    ELSE IF v = "tictacku" THEN Pts(120)
    ELSE LET cells == bigCells(localAfter(s, m))
         IN  Pts(100) + Pts(50) *
             Cardinality({i \in 1..8 :
                 /\ countInLine(cells, LINES[i], s.turn) = 2
                 /\ includes(LINES[i], m.bi)})

\* steps 3 and 4: the move takes the cell that wins the board, or the board
\* and the game, for the opponent
blockScore(s, m, v) ==
    IF evalWinner9(oppBoard(s, m)) # other(s.turn) THEN 0
    ELSE (IF v = "tictacku" THEN Pts(110) ELSE Pts(90)) +
         (IF computeBigResult([s.local EXCEPT ![m.bi] = other(s.turn)], v)
                 = other(s.turn)
          THEN Pts(500) ELSE 0)

\* steps 5 and 6: two in a row made, two in a row of the opponent blocked
lineScore(s, m) ==
    LET cells == s.boards[m.bi]
        through == {i \in 1..8 : includes(LINES[i], m.ci)}
    IN  Pts(15) * Cardinality({i \in through :
                      /\ countInLine(cells, LINES[i], s.turn) = 1
                      /\ countInLine(newBoard(s, m), LINES[i], s.turn) = 2
                      /\ countInLine(cells, LINES[i], other(s.turn)) = 0})
      + Pts(12) * Cardinality({i \in through :
                      /\ countInLine(cells, LINES[i], other(s.turn)) = 2
                      /\ countInLine(cells, LINES[i], s.turn) = 0})

\* step 7: centre and corners
positionScore(m) ==
    IF m.ci = 4 THEN Pts(6)
    ELSE IF m.ci \in {0, 2, 6, 8} THEN Pts(3)
    ELSE 0

\* step 8: the board the opponent is sent to, judged on the state before
\* the move
sendScore(s, m) ==
    IF s.local[m.ci] # Null THEN 0 - Pts(20)
    ELSE LET targetCells == s.boards[m.ci]
         IN  Pts(8) * Cardinality({i \in 1..8 :
                          /\ countInLine(targetCells, LINES[i], s.turn) = 2
                          /\ countInLine(targetCells, LINES[i], other(s.turn)) = 0})
           - Pts(25) * Cardinality({i \in 1..8 :
                          /\ countInLine(targetCells, LINES[i], other(s.turn)) = 2
                          /\ countInLine(targetCells, LINES[i], s.turn) = 0})

\* step 9: half a point for each line still open on the board played on
openScore(s, m) == countOpenLines(newBoard(s, m), s.turn)

\* scoreMove without the early return of the game-winning move
scoreMoveNoSentinel(s, m, v) ==
    localWinScore(s, m, v) + blockScore(s, m, v) + lineScore(s, m)
        + positionScore(m) + sendScore(s, m) + openScore(s, m)

scoreMove(s, m, v) ==
    IF winsGame(s, m, v) THEN Pts(1000)
    ELSE localWinScore(s, m, v) + blockScore(s, m, v) + lineScore(s, m)
             + positionScore(m) + sendScore(s, m) + openScore(s, m)

\* the tolerances with that of easy ten times as wide
thresholdEasyWide(difficulty) ==
    CASE difficulty = "easy" -> 500
      [] difficulty = "hard" -> 3
      [] OTHER -> 10

\* the tolerance below the best score, by difficulty
threshold(difficulty) ==
    CASE difficulty = "easy" -> 50
      [] difficulty = "hard" -> 3
      [] OTHER -> 10

\* the greatest member of a non-empty set of integers
MaxOf(S) == CHOOSE x \in S : \A y \in S : y <= x

\* the legal moves with their scores (scored)
scoredMoves(s, v) ==
    LET moves == legalMoves(s)
    IN  {[bi |-> moves[k].bi, ci |-> moves[k].ci,
          score |-> scoreMove(s, moves[k], v)] : k \in 1..Len(moves)}

\* topMoves after an ascending sort: best is the lowest score
topMovesSortAscending(s, difficulty, v) ==
    LET scored == scoredMoves(s, v)
        best   == 0 - MaxOf({0 - r.score : r \in scored})
    IN  {Move(r.bi, r.ci) :
            r \in {q \in scored : q.score >= best - Pts(threshold(difficulty))}}

\* the moves pickMove can return without the blunder, every difficulty
\* using the tolerance of easy
topMovesAllEasy(s, difficulty, v) ==
    LET scored == scoredMoves(s, v)
        best   == MaxOf({r.score : r \in scored})
    IN  {Move(r.bi, r.ci) :
            r \in {q \in scored : q.score >= best - Pts(threshold("easy"))}}

\* the moves pickMove can return when it scores them: those within the
\* tolerance of the best score (the sort only orders them)
topMoves(s, difficulty, v) ==
    LET scored == scoredMoves(s, v)
        best   == MaxOf({r.score : r \in scored})
    IN  {Move(r.bi, r.ci) :
            r \in {q \in scored : q.score >= best - Pts(threshold(difficulty))}}

\* pickMove whose blunder takes any empty cell of an undecided board
pickMoveBlunderAnywhere(s, difficulty, v, blunder) ==
    IF Len(legalMoves(s)) = 0 THEN {NoMove}
    ELSE IF difficulty = "easy" /\ blunder
    THEN {Move(bi, ci) : bi \in Idx, ci \in Idx} \cap
             {m \in [bi : Idx, ci : Idx] :
                 s.local[m.bi] = Null /\ s.boards[m.bi][m.ci] = Null}
    ELSE topMoves(s, difficulty, v)

\* the values pickMove can return: blunder is the outcome of the first
\* random draw (Math.random() < 0.15), and the member taken is the outcome
\* of the index draw
pickMove(s, difficulty, v, blunder) ==
    LET moves == legalMoves(s)
    IN  IF Len(moves) = 0 THEN {NoMove}
        ELSE IF difficulty = "easy" /\ blunder
        THEN {moves[k] : k \in 1..Len(moves)}
        ELSE topMoves(s, difficulty, v)

\* position strength of a player, from -100 to 100
evaluatePosition(s, player, v) ==
    LET opp       == other(player)
        myBoards  == Cardinality({i \in Idx : s.local[i] = player})
        oppBoards == Cardinality({i \in Idx : s.local[i] = opp})
        boardValue == IF v = "tictacku" THEN 15 ELSE 20
        cells     == bigCells(s.local)
        extra ==
            IF v = "classic"
            THEN 15 * Cardinality({i \in 1..8 :
                        /\ countInLine(cells, LINES[i], player) = 2
                        /\ countInLine(cells, LINES[i], opp) = 0})
               - 15 * Cardinality({i \in 1..8 :
                        /\ countInLine(cells, LINES[i], opp) = 2
                        /\ countInLine(cells, LINES[i], player) = 0})
            ELSE (IF myBoards >= 4 THEN 25 ELSE 0)
               - (IF oppBoards >= 4 THEN 25 ELSE 0)
        score == (myBoards - oppBoards) * boardValue + extra
    IN  IF score > 100 THEN 100 ELSE IF score < 0 - 100 THEN 0 - 100 ELSE score

\* shouldDouble that does not ask canDouble
shouldDoubleUnguarded(s, v, willing) ==
    /\ evaluatePosition(s, s.turn, v) > 15 + s.cubeValue * 3
    /\ willing

\* shouldDouble whose threshold grows by one per cube point
shouldDoubleFlatThreshold(s, v, willing) ==
    IF ~canDouble(s) THEN FALSE
    ELSE /\ evaluatePosition(s, s.turn, v) > 15 + s.cubeValue
         /\ willing

\* willing is the outcome of the random draw (Math.random() > 0.2)
shouldDouble(s, v, willing) ==
    IF ~canDouble(s) THEN FALSE
    ELSE /\ evaluatePosition(s, s.turn, v) > 15 + s.cubeValue * 3
         /\ willing

\* shouldAcceptDouble that weighs the position of the player who doubled
shouldAcceptDoubleForDoubler(s, v) ==
    IF s.pendingDouble = Null THEN TRUE
    ELSE evaluatePosition(s, s.pendingDouble, v) > s.cubeValue - 40

shouldAcceptDouble(s, v) ==
    IF s.pendingDouble = Null THEN TRUE
    ELSE evaluatePosition(s, other(s.pendingDouble), v) > s.cubeValue - 40

\* --------------------------------------------------------- the game driven

\* Recorded games, each a sequence of <<board, cell>> moves from the initial
\* state: a classic game won by X, a classic game drawn, a first-to-5 game
\* won by O and a first-to-5 game X wins with five boards, none of them in a
\* line, while a board is still undecided.
GameLines == <<
  << <<1, 0>>, <<0, 1>>, <<1, 2>>, <<2, 5>>, <<5, 8>>, <<8, 0>>, <<0, 6>>, <<6, 8>>,
     <<8, 8>>, <<8, 5>>, <<5, 0>>, <<0, 5>>, <<5, 6>>, <<6, 2>>, <<2, 6>>, <<6, 0>>,
     <<0, 7>>, <<7, 7>>, <<7, 0>>, <<0, 2>>, <<2, 7>>, <<7, 4>>, <<4, 3>>, <<3, 4>>,
     <<4, 5>>, <<5, 4>>, <<4, 4>>, <<5, 3>>, <<3, 0>>, <<0, 8>>, <<8, 1>>, <<1, 8>>,
     <<8, 3>>, <<3, 1>>, <<1, 1>>, <<2, 1>>, <<7, 2>>, <<2, 3>>, <<3, 8>>, <<8, 4>>,
     <<2, 0>>, <<7, 1>>, <<5, 7>>, <<6, 3>>, <<3, 6>>, <<6, 6>>, <<8, 6>>, <<8, 2>>,
     <<2, 8>>, <<8, 7>>, <<3, 7>> >>,
  << <<8, 0>>, <<0, 2>>, <<2, 7>>, <<7, 2>>, <<2, 6>>, <<6, 6>>, <<6, 7>>, <<7, 6>>,
     <<6, 4>>, <<4, 4>>, <<4, 6>>, <<6, 0>>, <<0, 4>>, <<4, 0>>, <<0, 6>>, <<6, 2>>,
     <<2, 4>>, <<4, 8>>, <<8, 5>>, <<5, 2>>, <<2, 5>>, <<5, 3>>, <<3, 0>>, <<0, 3>>,
     <<3, 6>>, <<6, 1>>, <<1, 7>>, <<7, 4>>, <<8, 4>>, <<3, 2>>, <<2, 1>>, <<1, 1>>,
     <<1, 8>>, <<8, 7>>, <<1, 4>>, <<1, 6>>, <<5, 7>>, <<3, 1>>, <<1, 0>>, <<0, 8>>,
     <<8, 8>>, <<5, 4>>, <<3, 4>>, <<0, 7>>, <<0, 5>>, <<5, 5>>, <<3, 3>>, <<0, 0>>,
     <<0, 1>> >>,
  << <<8, 8>>, <<8, 7>>, <<7, 8>>, <<8, 4>>, <<4, 8>>, <<8, 1>>, <<1, 5>>, <<5, 8>>,
     <<2, 8>>, <<2, 4>>, <<4, 2>>, <<2, 7>>, <<7, 0>>, <<0, 4>>, <<4, 6>>, <<6, 8>>,
     <<5, 2>>, <<2, 1>>, <<1, 1>>, <<1, 3>>, <<3, 2>>, <<4, 1>>, <<1, 6>>, <<6, 2>>,
     <<3, 6>>, <<6, 4>>, <<4, 3>>, <<3, 8>>, <<7, 6>>, <<6, 0>>, <<0, 6>>, <<5, 4>>,
     <<4, 5>>, <<5, 0>>, <<0, 1>>, <<1, 4>>, <<1, 2>>, <<0, 7>>, <<7, 7>>, <<0, 8>>,
     <<3, 1>>, <<1, 8>>, <<3, 4>>, <<0, 2>>, <<0, 0>>, <<0, 3>>, <<0, 5>>, <<1, 0>> >>,
  << <<8, 7>>, <<7, 7>>, <<7, 8>>, <<8, 1>>, <<1, 7>>, <<7, 1>>, <<1, 4>>, <<4, 1>>,
     <<1, 1>>, <<2, 1>>, <<6, 1>>, <<3, 1>>, <<5, 2>>, <<2, 5>>, <<5, 8>>, <<8, 2>>,
     <<2, 7>>, <<7, 0>>, <<0, 2>>, <<2, 6>>, <<6, 7>>, <<7, 2>>, <<2, 3>>, <<3, 0>>,
     <<0, 1>>, <<6, 4>>, <<4, 0>>, <<0, 6>>, <<6, 2>>, <<2, 0>>, <<0, 0>>, <<6, 0>>,
     <<5, 3>>, <<3, 5>>, <<5, 5>>, <<3, 2>>, <<2, 8>>, <<8, 5>>, <<4, 7>>, <<4, 5>>,
     <<6, 5>>, <<4, 2>>, <<2, 2>>, <<2, 4>>, <<4, 3>>, <<4, 4>>, <<4, 6>>, <<6, 6>>,
     <<6, 8>> >> >>

\* the variant each recorded game was played under
GameVariant == <<"classic", "classic", "tictacku", "tictacku">>

VARIABLES
    state,    \* the current GameState
    variant,  \* the variant the game is played under
    line,     \* the recorded game this game follows
    ply,      \* moves applied so far
    free,     \* moves so far that were not taken from the recorded game
    probe,    \* nine results or cells handed to a pure function of the engine
    answer,   \* what the function returned for them, Unasked before the call
    viewModel \* the GameViewModel around state: its other fields, and the
              \* calls it has scheduled and not yet run

vars == <<state, variant, line, ply, free, probe, answer, viewModel>>

\* no call made yet
Unasked == "unasked"

LocalResults == Players \cup {"D", Null}

\* a GameViewModel as its initializer leaves it: the AI plays O at hard,
\* nothing to undo, nothing scheduled. aiMoveCalls are the performAIMove
\* calls waiting, oldest first, and aiReplyCalls counts the aiRespondToDouble
\* calls waiting.
GameViewModelInit ==
    viewModel = [aiSide       |-> "O",
                 difficulty   |-> "hard",
                 isThinking   |-> FALSE,
                 history      |-> << >>,
                 aiMoveCalls  |-> << >>,
                 aiReplyCalls |-> 0]

TypeOK ==
    /\ state.boards \in [Idx -> [Idx -> Players \cup {Null}]]
    /\ state.local \in [Idx -> Players \cup {"D", Null}]
    /\ state.nextBoard \in Idx \cup {NoBoard}
    /\ state.turn \in Players
    /\ state.result \in Players \cup {"D", Null}
    /\ state.cubeValue \in Nat \ {0}
    /\ state.cubeOwner \in Players \cup {Null}
    /\ state.pendingDouble \in Players \cup {Null}
    /\ variant \in Variants
    /\ line \in 1..Len(GameLines)
    /\ ply \in 0..81
    /\ free \in 0..MaxFree
    /\ probe \in [Idx -> LocalResults]
    /\ answer \in LocalResults \cup {Unasked}

Init ==
    /\ state = initialState
    /\ line \in 1..Len(GameLines)
    /\ variant = GameVariant[line]
    /\ ply = 0
    /\ free = 0
    /\ probe = initialState.local
    /\ answer = Unasked
    /\ GameViewModelInit

\* the next move of the recorded game, when the game has one left
LineMove == Move(GameLines[line][ply + 1][1], GameLines[line][ply + 1][2])

\* a player places the recorded game's next mark; the recorded game is
\* followed up to the first free move
PlayLine ==
    /\ free = 0
    /\ ply < Len(GameLines[line])
    /\ isLegalMove(state, LineMove)
    /\ state' = applyMove(state, LineMove, variant)
    /\ ply' = ply + 1
    /\ UNCHANGED <<variant, line, free, probe, answer>>
    /\ UNCHANGED viewModel

\* a player places a mark on any cell the engine reports legal
PlayFree ==
    /\ free < MaxFree
    /\ LET moves == legalMoves(state)
       IN  \E k \in 1..Len(moves) : state' = applyMove(state, moves[k], variant)
    /\ ply' = ply + 1
    /\ free' = free + 1
    /\ UNCHANGED <<variant, line, probe, answer>>
    /\ UNCHANGED viewModel

\* the double button: the call is made whether or not a double is allowed
OfferDouble ==
    /\ state.cubeValue < MaxOfferCube
    /\ state' = offerDouble(state)
    /\ UNCHANGED <<variant, line, ply, free, probe, answer>>
    /\ UNCHANGED viewModel

AcceptDouble ==
    /\ state' = acceptDouble(state)
    /\ UNCHANGED <<variant, line, ply, free, probe, answer>>
    /\ UNCHANGED viewModel

DeclineDouble ==
    /\ state' = declineDouble(state)
    /\ UNCHANGED <<variant, line, ply, free, probe, answer>>
    /\ UNCHANGED viewModel

Next ==
    \/ PlayLine
    \/ PlayFree
    \/ OfferDouble
    \/ AcceptDouble
    \/ DeclineDouble

Spec == Init /\ [][Next]_vars

\* ------------------------------------------------- the cube played to its end

\* the double button without a limit on the cube
OfferAnyDouble ==
    /\ state' = offerDouble(state)
    /\ UNCHANGED <<variant, line, ply, free, probe, answer>>
    /\ UNCHANGED viewModel

\* the recorded games with every cube transition open at every state
NextCube ==
    \/ PlayLine
    \/ OfferAnyDouble
    \/ AcceptDouble
    \/ DeclineDouble

SpecCube == Init /\ [][NextCube]_vars

\* ------------------------------------------------ the meta result, called

\* the AI, playing O, places a mark: pickMove, then applyMove when a move
\* came back
AiMove ==
    /\ free < MaxFree
    /\ state.result = Null
    /\ state.pendingDouble # "X"
    /\ state.turn = "O"
    /\ \E difficulty \in Difficulties, blunder \in BOOLEAN :
          \E m \in pickMove(state, difficulty, variant, blunder) :
              /\ m # NoMove
              /\ state' = applyMove(state, m, variant)
    /\ ply' = ply + 1
    /\ free' = free + 1
    /\ UNCHANGED <<variant, line, probe, answer>>
    /\ UNCHANGED viewModel

\* the AI, playing O, offers a double when shouldDouble says so
AiOfferDouble ==
    /\ state.result = Null
    /\ state.pendingDouble # "X"
    /\ state.turn = "O"
    /\ \E willing \in BOOLEAN : shouldDouble(state, variant, willing)
    /\ state' = offerDouble(state)
    /\ UNCHANGED <<variant, line, ply, free, probe, answer>>
    /\ UNCHANGED viewModel

NextAI == \/ PlayLine \/ AiMove

\* games in which the AI moves
SpecAI == Init /\ [][NextAI]_vars

NextAICube == \/ PlayLine \/ AiOfferDouble \/ AcceptDouble \/ DeclineDouble

\* games in which the AI doubles
SpecAICube == Init /\ [][NextAICube]_vars

\* the human, playing X, offers a double
HumanOfferDouble ==
    /\ canDouble(state)
    /\ state.turn = "X"
    /\ state' = offerDouble(state)
    /\ UNCHANGED <<variant, line, ply, free, probe, answer>>
    /\ UNCHANGED viewModel

\* the AI answers the human's double: accepts when shouldAcceptDouble says
\* so, declines otherwise
AiAnswerDouble ==
    /\ state.result = Null
    /\ state.pendingDouble = "X"
    /\ state' = IF shouldAcceptDouble(state, variant)
                THEN acceptDouble(state)
                ELSE declineDouble(state)
    /\ UNCHANGED <<variant, line, ply, free, probe, answer>>
    /\ UNCHANGED viewModel

NextAIAnswer == \/ PlayLine \/ HumanOfferDouble \/ AiAnswerDouble

\* games in which the human doubles and the AI answers
SpecAIAnswer == Init /\ [][NextAIAnswer]_vars

\* ---------------------------------------------------- the Swift view model
\*
\* GameViewModel drives the engine from taps and from calls it schedules on
\* the main queue with asyncAfter. A scheduled call cannot be cancelled; it
\* runs later, alone, on whatever the view model holds by then. The text
\* fields (message) and the win counters are written and never read by a
\* guard, and are left out.

\* cells a tap may land on in these games, and the boards it may land on
\* when the choice of board is free
TapCells == {4}
FreeTapBoards == {4}

\* sides and strengths a new game may be started with
NewGameSides == Players
NewGameDifficulties == {"hard"}

moveCount(s) ==
    Cardinality({k \in 0..80 : s.boards[k \div 9][k % 9] # Null})

isGameOver == state.result # Null

isHumanTurn == ~isGameOver /\ state.turn # viewModel.aiSide

canUndo == viewModel.history # << >> /\ ~viewModel.isThinking

humanCanDouble ==
    isHumanTurn /\ canDouble(state) /\ state.pendingDouble = Null

pendingDoubleFromAI == state.pendingDouble = viewModel.aiSide

InitViewModel ==
    /\ state = initialState
    /\ line = 1
    /\ variant = "classic"
    /\ ply = 0
    /\ free = 0
    /\ probe = initialState.local
    /\ answer = Unasked
    /\ GameViewModelInit

\* triggerAIMove on view model vm: a performAIMove call is put on the queue,
\* after the calls already waiting. Each waiting call is written TRUE while
\* the game it was scheduled in is still the one played; performAIMove
\* cannot read that.
triggerAIMove(vm) ==
    [vm EXCEPT !.isThinking = TRUE,
               !.aiMoveCalls = Append(vm.aiMoveCalls, TRUE)]

\* the human taps a cell
CellTapped ==
    \E bi \in Idx, ci \in TapCells :
        LET move  == Move(bi, ci)
            after == applyMove(state, move, variant)
            saved == [viewModel EXCEPT
                         !.history = Append(viewModel.history, state)]
        IN  /\ state.nextBoard = NoBoard => bi \in FreeTapBoards
            /\ isHumanTurn
            /\ isLegalMove(state, move)
            /\ moveCount(state) < MaxMarks
            /\ Len(viewModel.history) < MaxHistory
            /\ state' = after
            /\ IF after.result = Null /\ after.turn = viewModel.aiSide
               THEN /\ Len(viewModel.aiMoveCalls) < MaxCalls
                    /\ viewModel' = triggerAIMove(saved)
               ELSE viewModel' = saved
            /\ UNCHANGED <<variant, line, ply, free, probe, answer>>

Undo ==
    /\ canUndo
    /\ state' = viewModel.history[Len(viewModel.history)]
    /\ viewModel' = [viewModel EXCEPT
           !.history = SubSeq(viewModel.history, 1, Len(viewModel.history) - 1)]
    /\ UNCHANGED <<variant, line, ply, free, probe, answer>>

\* the human doubles; the AI's answer is scheduled
OfferDoubleFromHuman ==
    /\ humanCanDouble
    /\ viewModel.aiReplyCalls < MaxCalls
    /\ Len(viewModel.history) < MaxHistory
    /\ state' = offerDouble(state)
    /\ viewModel' = [viewModel EXCEPT
           !.history = Append(viewModel.history, state),
           !.aiReplyCalls = viewModel.aiReplyCalls + 1]
    /\ UNCHANGED <<variant, line, ply, free, probe, answer>>

\* a scheduled aiRespondToDouble runs
AiRespondToDouble ==
    /\ viewModel.aiReplyCalls > 0
    /\ viewModel' = [viewModel EXCEPT
           !.aiReplyCalls = viewModel.aiReplyCalls - 1]
    /\ state' = IF shouldAcceptDouble(state, variant)
                THEN acceptDouble(state)
                ELSE declineDouble(state)
    /\ UNCHANGED <<variant, line, ply, free, probe, answer>>

\* the human accepts the AI's double; the AI is still to move
AcceptDoubleFromHuman ==
    LET after == acceptDouble(state)
    IN  /\ pendingDoubleFromAI
        /\ state' = after
        /\ IF after.turn = viewModel.aiSide
           THEN /\ Len(viewModel.aiMoveCalls) < MaxCalls
                /\ viewModel' = triggerAIMove(viewModel)
           ELSE UNCHANGED viewModel
        /\ UNCHANGED <<variant, line, ply, free, probe, answer>>

DeclineDoubleFromHuman ==
    /\ pendingDoubleFromAI
    /\ state' = declineDouble(state)
    /\ UNCHANGED <<variant, line, ply, free, probe, answer, viewModel>>

\* what newGame, resetGame and restart leave in the view model, for the AI
\* side ai at strength d: nothing to undo, and the AI's first move scheduled
\* when the AI plays X. The calls still waiting are from an earlier game now.
freshGame(ai, d) ==
    LET waiting == [k \in 1..Len(viewModel.aiMoveCalls) |-> FALSE]
        fresh   == [viewModel EXCEPT !.aiSide = ai,
                                     !.difficulty = d,
                                     !.isThinking = FALSE,
                                     !.history = << >>,
                                     !.aiMoveCalls = waiting]
    IN  IF initialState.turn = ai THEN triggerAIMove(fresh) ELSE fresh

\* room on the queue for the call a fresh game schedules
canTrigger(ai) ==
    initialState.turn = ai => Len(viewModel.aiMoveCalls) < MaxCalls

NewGame ==
    \E side \in NewGameSides, d \in NewGameDifficulties :
        /\ canTrigger(other(side))
        /\ state' = initialState
        /\ viewModel' = freshGame(other(side), d)
        /\ UNCHANGED <<variant, line, ply, free, probe, answer>>

ResetGame ==
    /\ canTrigger(viewModel.aiSide)
    /\ state' = initialState
    /\ viewModel' = freshGame(viewModel.aiSide, viewModel.difficulty)
    /\ UNCHANGED <<variant, line, ply, free, probe, answer>>

Restart ==
    /\ canTrigger(viewModel.aiSide)
    /\ state' = initialState
    /\ viewModel' = freshGame(viewModel.aiSide, viewModel.difficulty)
    /\ UNCHANGED <<variant, line, ply, free, probe, answer>>

\* the oldest scheduled performAIMove runs: the AI doubles, or else plays the
\* move pickMove returns for the state the view model holds now
PerformAIMove ==
    /\ viewModel.aiMoveCalls # << >>
    /\ viewModel' = [viewModel EXCEPT
           !.isThinking = FALSE,
           !.aiMoveCalls = Tail(viewModel.aiMoveCalls)]
    /\ \E willing \in BOOLEAN, blunder \in BOOLEAN :
         IF shouldDouble(state, variant, willing)
         THEN state' = offerDouble(state)
         ELSE \E m \in pickMove(state, viewModel.difficulty, variant, blunder) :
                IF m = NoMove
                THEN state' = state
                ELSE /\ moveCount(state) < MaxMarks
                     /\ state' = applyMove(state, m, variant)
    /\ UNCHANGED <<variant, line, ply, free, probe, answer>>

NextViewModel ==
    \/ CellTapped
    \/ Undo
    \/ OfferDoubleFromHuman
    \/ AiRespondToDouble
    \/ AcceptDoubleFromHuman
    \/ DeclineDoubleFromHuman
    \/ NewGame
    \/ ResetGame
    \/ Restart
    \/ PerformAIMove

\* the view model under taps and scheduled calls in any order
SpecViewModel == InitViewModel /\ [][NextViewModel]_vars

\* every 9-cell board
InitLocal ==
    /\ state = initialState
    /\ line = 1
    /\ variant = "classic"
    /\ ply = 0
    /\ free = 0
    /\ probe \in [Idx -> Players \cup {Null}]
    /\ answer = Unasked
    /\ GameViewModelInit

\* computeLocalResult is called on the board
CallLocalResult ==
    /\ answer = Unasked
    /\ answer' = computeLocalResult(probe)
    /\ UNCHANGED <<state, variant, line, ply, free, probe>>
    /\ UNCHANGED viewModel

NextLocal == CallLocalResult

\* computeLocalResult on every board
SpecLocal == InitLocal /\ [][NextLocal]_vars

\* any nine local results, under either variant
InitBig ==
    /\ state = initialState
    /\ line = 1
    /\ variant \in Variants
    /\ ply = 0
    /\ free = 0
    /\ probe \in [Idx -> LocalResults]
    /\ answer = Unasked
    /\ GameViewModelInit

\* the call without the variant, which then takes its default
CallBigResultNoVariant ==
    /\ answer = Unasked
    /\ answer' = computeBigResult(probe, "classic")
    /\ UNCHANGED <<state, variant, line, ply, free, probe>>
    /\ UNCHANGED viewModel

CallBigResult ==
    /\ answer = Unasked
    /\ answer' = computeBigResult(probe, variant)
    /\ UNCHANGED <<state, variant, line, ply, free, probe>>
    /\ UNCHANGED viewModel

NextBig == CallBigResult

SpecBig == InitBig /\ [][NextBig]_vars

\* ------------------------------------------------------------ the properties

AllMoves == {Move(bi, ci) : bi \in Idx, ci \in Idx}

\* the moves of the list legalMoves returns, as a set
legalMoveSet(s) ==
    LET moves == legalMoves(s) IN {moves[k] : k \in 1..Len(moves)}

Marks(s, p) == Cardinality({k \in 0..80 : s.boards[k \div 9][k % 9] = p})

\* C1 (as claimed): in every reachable state, the state declineDouble
\* produces included, result is computeBigResult(local, variant).
C1_ResultIsBigResult ==
    state.result = computeBigResult(state.local, variant)

\* C1 (amended): every transition either returns the state unchanged, or
\* yields a state whose result is computeBigResult(local, variant), or is a
\* declineDouble of a pending double, which leaves local alone and sets
\* result to the offering player although computeBigResult(local, variant)
\* is still undecided.
C1_ResultTracksBoards ==
    [][ \/ state' = state
        \/ state'.result = computeBigResult(state'.local, variant')
        \/ /\ state.pendingDouble # Null
           /\ state'.result = state.pendingDouble
           /\ state'.local = state.local
           /\ computeBigResult(state'.local, variant') = Null ]_vars

\* C1 witness: a game a move has decided, the result being the meta result
\* of the local results.
C1_Witness ==
    /\ ply > 0
    /\ state.result # Null
    /\ state.result = computeBigResult(state.local, variant)

\* C2: in every reachable state, local[i] is computeLocalResult(boards[i])
\* for every board i.
C2_LocalIsLocalResult ==
    \A i \in Idx : state.local[i] = computeLocalResult(state.boards[i])

\* C2 witness: a board won and a board drawn are both recorded in local.
C2_Witness ==
    /\ \E i \in Idx : state.local[i] \in Players
    /\ \E i \in Idx : state.local[i] = "D"

\* C3 (as claimed): while a double is pending no move is legal.
C3_NoLegalMoveWhilePending ==
    state.pendingDouble # Null =>
        /\ legalMoves(state) = << >>
        /\ \A m \in AllMoves : ~isLegalMove(state, m)

\* C3 (amended): legalMoves and isLegalMove do not look at pendingDouble, so
\* while a double is pending they report the moves they report without the
\* offer; what the engine guarantees is that a move applied then withdraws
\* the offer: after every applyMove pendingDouble is null and the cube value
\* and owner are what they were.
C3_MoveWithdrawsOffer ==
    /\ [](/\ legalMoves(state) = legalMoves([state EXCEPT !.pendingDouble = Null])
          /\ \A m \in AllMoves :
                isLegalMove(state, m)
                    = isLegalMove([state EXCEPT !.pendingDouble = Null], m))
    /\ [][ply' # ply =>
            /\ state'.pendingDouble = Null
            /\ state'.cubeValue = state.cubeValue
            /\ state'.cubeOwner = state.cubeOwner]_vars

\* C3 witness: a double is pending in a game under way and moves are legal.
C3_Witness ==
    /\ ply > 0
    /\ state.pendingDouble # Null
    /\ Len(legalMoves(state)) > 0
    /\ \E m \in AllMoves : isLegalMove(state, m)

\* C4: once result is decided no move is legal: legalMoves is empty and
\* isLegalMove is false for every move.
C4_NoMoveAfterResult ==
    state.result # Null =>
        /\ legalMoves(state) = << >>
        /\ \A m \in AllMoves : ~isLegalMove(state, m)

\* C4 witness: a decided game that still has an empty cell on an undecided
\* board the forcing rule would allow.
C4_Witness ==
    /\ state.result # Null
    /\ Len(legalMovesFrom(state)) > 0

\* C5: applyMove of a legal move (bi, ci) sets nextBoard to ci when board ci
\* is undecided once the mark is placed, and to null when it is decided.
C5_NextBoard ==
    \A m \in legalMoveSet(state) :
        LET after == applyMove(state, m, variant)
        IN  after.nextBoard =
                IF computeLocalResult(after.boards[m.ci]) = Null
                THEN m.ci ELSE NoBoard

\* C5 witness: a legal move into cell bi of board bi that decides that board
\* and so grants free choice, next to a legal move that forces a board.
C5_Witness ==
    /\ \E m \in legalMoveSet(state) :
          /\ m.bi = m.ci
          /\ state.local[m.bi] = Null
          /\ applyMove(state, m, variant).local[m.bi] # Null
          /\ applyMove(state, m, variant).result = Null
          /\ applyMove(state, m, variant).nextBoard = NoBoard
    /\ \E m \in legalMoveSet(state) :
          applyMove(state, m, variant).nextBoard = m.ci

\* C6: after applyMove of a legal move by player P the turn is other(P) if
\* the meta result is still undecided and stays P if the move decided the
\* game.
C6_TurnAfterMove ==
    \A m \in legalMoveSet(state) :
        LET after == applyMove(state, m, variant)
        IN  after.turn =
                IF computeBigResult(after.local, variant) = Null
                THEN other(state.turn) ELSE state.turn

\* C6 witness: one legal move wins the game, another draws or continues it.
C6_Witness ==
    /\ \E m \in legalMoveSet(state) :
          applyMove(state, m, variant).result = state.turn
    /\ \E m \in legalMoveSet(state) :
          applyMove(state, m, variant).result = Null

\* C7: when result is undecided, legalMoves is exactly the pairs (i, c) with
\* local[i] undecided, nextBoard null or i, and boards[i][c] empty, each once.
C7_LegalMovesExact ==
    state.result = Null =>
        /\ legalMoveSet(state) =
              {m \in AllMoves : /\ state.local[m.bi] = Null
                                /\ state.nextBoard \in {NoBoard, m.bi}
                                /\ state.boards[m.bi][m.ci] = Null}
        /\ Len(legalMoves(state)) = Cardinality(legalMoveSet(state))

\* C7 witness: an undecided game with a forced board that has marks on it,
\* while another undecided board has empty cells and a third is decided.
C7_Witness ==
    /\ state.result = Null
    /\ state.nextBoard # NoBoard
    /\ \E c \in Idx : state.boards[state.nextBoard][c] # Null
    /\ \E i \in Idx : /\ i # state.nextBoard
                      /\ state.local[i] = Null
                      /\ \E c \in Idx : state.boards[i][c] = Null
    /\ \E i \in Idx : state.local[i] # Null

\* C8: isLegalMove(state, m) is true exactly when m is in legalMoves(state),
\* for every move with both indices in 0..8.
C8_IsLegalAgrees ==
    LET listed == legalMoveSet(state)
    IN  \A m \in AllMoves : isLegalMove(state, m) <=> m \in listed

\* C8 witness: an undecided game in which some move is legal, some cell of
\* the forced board is occupied and some free cell lies on another board.
C8_Witness ==
    /\ state.result = Null
    /\ state.nextBoard # NoBoard
    /\ \E m \in AllMoves : isLegalMove(state, m)
    /\ \E c \in Idx : state.boards[state.nextBoard][c] # Null
    /\ \E m \in AllMoves : /\ m.bi # state.nextBoard
                           /\ state.boards[m.bi][m.ci] = Null
                           /\ ~isLegalMove(state, m)

\* C9: an occupied cell is never cleared or overwritten, and each applyMove
\* changes exactly one cell, from empty to the mover's mark; the cube
\* transitions change no cell.
C9_CellsKept ==
    [][ /\ \A b \in Idx, c \in Idx :
              state.boards[b][c] # Null => state'.boards[b][c] = state.boards[b][c]
        /\ ply' # ply =>
              \E b \in Idx, c \in Idx :
                  /\ state.boards[b][c] = Null
                  /\ state'.boards = [state.boards EXCEPT ![b][c] = state.turn]
        /\ ply' = ply => state'.boards = state.boards ]_vars

\* C9 witness: a game under way with marks of both players and a full board.
C9_Witness ==
    /\ Marks(state, "X") >= 2
    /\ Marks(state, "O") >= 2
    /\ \E b \in Idx : isFull9(state.boards[b])

\* C10: once local[i] is decided it keeps that value in every later state.
C10_LocalKept ==
    [][\A i \in Idx :
          state.local[i] # Null => state'.local[i] = state.local[i]]_vars

\* C10 witness: a board was won with cells to spare and the game went on to
\* decide another board.
C10_Witness ==
    /\ \E i \in Idx : /\ state.local[i] \in Players
                      /\ ~isFull9(state.boards[i])
    /\ Cardinality({i \in Idx : state.local[i] # Null}) >= 2

\* the players owning all three cells of some line of LINES
LineOwners(cells) == {cells[LINES[i][1]] : i \in CompleteLines(cells)}

\* C11: no local board holds completed lines of two different players.
C11_OneWinnerPerBoard ==
    \A b \in Idx : Cardinality(LineOwners(state.boards[b])) <= 1

\* C11 witness: on a board one player has won, the other player has two
\* marks on a line whose third cell is still empty.
C11_Witness ==
    \E b \in Idx, i \in 1..8 :
        /\ state.local[b] \in Players
        /\ \E free3 \in 1..3 :
              /\ state.boards[b][LINES[i][free3]] = Null
              /\ \A k \in 1..3 \ {free3} :
                    state.boards[b][LINES[i][k]] = other(state.local[b])

\* C12: canDouble is true exactly when the result is undecided, no double is
\* pending, cubeValue is below 64 and cubeOwner is null or the player to move.
C12_CanDoubleExact ==
    canDouble(state) <=>
        /\ state.result = Null
        /\ state.pendingDouble = Null
        /\ state.cubeValue < 64
        /\ state.cubeOwner \in {Null, state.turn}

\* C12 witness: the cube stands at 64 with its owner to move in an undecided
\* game with no double pending.
C12_Witness ==
    /\ state.cubeValue = 64
    /\ state.cubeOwner = state.turn
    /\ state.result = Null
    /\ state.pendingDouble = Null

\* C13: where canDouble holds, offerDouble sets pendingDouble to the player
\* to move and changes nothing else.
C13_OfferFrame ==
    canDouble(state) =>
        LET after == offerDouble(state)
        IN  /\ after.pendingDouble = state.turn
            /\ after.boards = state.boards
            /\ after.local = state.local
            /\ after.nextBoard = state.nextBoard
            /\ after.result = state.result
            /\ after.turn = state.turn
            /\ after.cubeValue = state.cubeValue
            /\ after.cubeOwner = state.cubeOwner

\* C13 witness: O, owning a cube that was raised, may double after moves were
\* played.
C13_Witness ==
    /\ canDouble(state)
    /\ state.turn = "O"
    /\ state.cubeOwner = "O"
    /\ state.cubeValue >= 2
    /\ ply > 0

\* C14: with a double pending, acceptDouble doubles cubeValue, gives the cube
\* to the player who did not offer, clears pendingDouble and changes nothing
\* else; the offerer is still the player to move.
C14_AcceptFrame ==
    state.pendingDouble # Null =>
        LET after == acceptDouble(state)
        IN  /\ after.cubeValue = 2 * state.cubeValue
            /\ after.cubeOwner = other(state.pendingDouble)
            /\ after.cubeOwner # state.pendingDouble
            /\ after.pendingDouble = Null
            /\ after.boards = state.boards
            /\ after.local = state.local
            /\ after.nextBoard = state.nextBoard
            /\ after.result = state.result
            /\ after.turn = state.turn
            /\ after.turn = state.pendingDouble

\* C14 witness: a double offered on a cube that was already raised.
C14_Witness ==
    /\ state.pendingDouble # Null
    /\ state.cubeValue >= 2
    /\ state.cubeOwner = state.pendingDouble

\* C15: with a double pending, declineDouble sets result to the offering
\* player, clears pendingDouble and changes nothing else, the cube included.
C15_DeclineFrame ==
    state.pendingDouble # Null =>
        LET after == declineDouble(state)
        IN  /\ after.result = state.pendingDouble
            /\ after.pendingDouble = Null
            /\ after.cubeValue = state.cubeValue
            /\ after.cubeOwner = state.cubeOwner
            /\ after.boards = state.boards
            /\ after.local = state.local
            /\ after.nextBoard = state.nextBoard
            /\ after.turn = state.turn

\* C15 witness: a game that a declined double ended at a raised stake: the
\* result is a player although the boards decide nothing.
C15_Witness ==
    /\ state.result \in Players
    /\ computeBigResult(state.local, variant) = Null
    /\ state.cubeValue >= 2
    /\ state.pendingDouble = Null

\* C16: acceptDouble and declineDouble with no double pending, and offerDouble
\* where canDouble is false, return the state they were given.
C16_CubeNoOps ==
    /\ state.pendingDouble = Null =>
          /\ acceptDouble(state) = state
          /\ declineDouble(state) = state
    /\ ~canDouble(state) => offerDouble(state) = state

\* C16 witness: an undecided game with no double pending whose cube belongs
\* to the opponent of the player to move, so that none of the three applies.
C16_Witness ==
    /\ state.pendingDouble = Null
    /\ state.result = Null
    /\ state.cubeOwner = other(state.turn)
    /\ ~canDouble(state)

\* C17: cubeValue is one of 1, 2, 4, 8, 16, 32, 64 in every reachable state.
C17_CubeValues ==
    state.cubeValue \in {1, 2, 4, 8, 16, 32, 64}

\* C17 witness: the cube at 64 in a game that goes on.
C17_Witness ==
    /\ state.cubeValue = 64
    /\ state.result = Null
    /\ Len(legalMoves(state)) > 0

\* C18: cubeValue never decreases; applyMove, offerDouble and declineDouble
\* leave it unchanged, and a step that changes it is an acceptDouble of a
\* pending double, which doubles it.
C18_CubeMonotone ==
    [][ /\ state'.cubeValue >= state.cubeValue
        /\ ply' # ply => state'.cubeValue = state.cubeValue
        /\ offerDouble(state).cubeValue = state.cubeValue
        /\ declineDouble(state).cubeValue = state.cubeValue
        /\ state'.cubeValue # state.cubeValue =>
              /\ state.pendingDouble # Null
              /\ state' = acceptDouble(state)
              /\ state'.cubeValue = 2 * state.cubeValue ]_vars

\* C18 witness: a game played on after two accepted doubles, with a third
\* offer on the table.
C18_Witness ==
    /\ state.cubeValue = 4
    /\ state.pendingDouble # Null
    /\ ply >= 2

\* the players owning all three boards of some meta line, a drawn or
\* undecided board being owned by nobody
MetaOwners(local) ==
    {p \in Players :
        \E i \in 1..8 : \A k \in 1..3 : local[LINES[i][k]] = p}

\* C19: the classic meta result is the player who owns a line of three
\* boards, drawn and undecided boards counting as empty; with no line owned
\* it is Draw exactly when all nine local results are decided and undecided
\* otherwise.  (Where both players own a line the result is one of them.)
C19_ClassicMetaResult ==
    (variant = "classic" /\ answer # Unasked) =>
        /\ MetaOwners(probe) # {} => answer \in MetaOwners(probe)
        /\ MetaOwners(probe) = {} =>
              /\ answer = "D" <=> \A i \in Idx : probe[i] # Null
              /\ answer = Null <=> \E i \in Idx : probe[i] = Null
              /\ answer \in {"D", Null}

\* C19 witness: three drawn boards in a row with boards still undecided, and
\* the answer is undecided.
C19_Witness ==
    /\ variant = "classic"
    /\ answer = Null
    /\ \E i \in 1..8 : \A k \in 1..3 : probe[LINES[i][k]] = "D"
    /\ \E i \in Idx : probe[i] \in Players

\* C20: under tictacku the meta result is player P as soon as P has won 5 of
\* the 9 boards, also with boards still undecided, and the legal move that
\* gives the mover a fifth board ends the game with the mover as the result.
C20_FirstToFive ==
    variant = "tictacku" =>
        /\ \A p \in Players :
              Cardinality({i \in Idx : state.local[i] = p}) >= 5 =>
                  computeBigResult(state.local, variant) = p
        /\ \A m \in legalMoveSet(state) :
              LET after == applyMove(state, m, variant)
              IN  Cardinality({i \in Idx : after.local[i] = state.turn}) >= 5 =>
                      /\ after.result = state.turn
                      /\ after.turn = state.turn
                      /\ legalMoves(after) = << >>

\* C20 witness: a tictacku game won with five boards, none of the lines of
\* three owned by the winner, and a board still undecided.
C20_Witness ==
    /\ variant = "tictacku"
    /\ state.result \in Players
    /\ Cardinality({i \in Idx : state.local[i] = state.result}) = 5
    /\ \E i \in Idx : state.local[i] = Null
    /\ MetaOwners(state.local) = {}

\* C21: under tictacku, while neither player has won 5 boards the meta
\* result is never a player, also not for a player who owns a line of three
\* boards: it is Draw when all nine boards are decided, and undecided while
\* a player can still reach 5 with the boards still undecided.
C21_NoWinBelowFive ==
    (/\ variant = "tictacku"
     /\ answer # Unasked
     /\ \A p \in Players : BoardsWon(probe, p) < 5) =>
        LET undecided == Cardinality({i \in Idx : probe[i] = Null})
        IN  /\ answer \notin Players
            /\ undecided = 0 => answer = "D"
            /\ (\E p \in Players : BoardsWon(probe, p) + undecided >= 5)
                   => answer = Null

\* C21 witness: a drawn tictacku result although a player owns a line of
\* three boards.
C21_Witness ==
    /\ variant = "tictacku"
    /\ answer = "D"
    /\ MetaOwners(probe) # {}

\* C22: computeLocalResult returns the winner when a line of the board is
\* owned by one player, also on a full board; otherwise Draw when no cell
\* is empty, otherwise undecided.
C22_LocalResult ==
    answer # Unasked =>
        IF LineOwners(probe) # {} THEN answer \in LineOwners(probe)
        ELSE IF \A i \in Idx : probe[i] # Null THEN answer = "D"
        ELSE answer = Null

\* C22 witness: a full board with one completed line, won by the owner of
\* that line.
C22_Witness ==
    /\ answer \in Players
    /\ \A i \in Idx : probe[i] # Null
    /\ LineOwners(probe) = {answer}

\* C23: pickMove returns none exactly when legalMoves is empty; every move
\* it returns, at every difficulty and on every random outcome, the easy
\* blunder included, is a legal move and so lies on the forced board.
C23_PickIsLegal ==
    \A difficulty \in Difficulties, blunder \in BOOLEAN :
        LET picks == pickMove(state, difficulty, variant, blunder)
        IN  /\ picks # {}
            /\ NoMove \in picks <=> Len(legalMoves(state)) = 0
            /\ \A m \in picks \ {NoMove} :
                  /\ isLegalMove(state, m)
                  /\ state.nextBoard # NoBoard => m.bi = state.nextBoard

\* C23 witness: on a forced board the easy blunder can return moves the
\* scoring would not.
C23_Witness ==
    /\ state.result = Null
    /\ state.nextBoard # NoBoard
    /\ pickMove(state, "easy", variant, TRUE)
           # pickMove(state, "easy", variant, FALSE)

\* the move, applied, takes its board and the game for the mover
GameWinning(s, m, v) ==
    LET after == applyMove(s, m, v)
    IN  after.local[m.bi] = s.turn /\ after.result = s.turn

\* C24: where the player to move has a legal move that wins the game,
\* pickMove at hard returns a game-winning move on every random outcome,
\* and no legal move that does not win the game scores within 3 of 1000.
C24_HardTakesWin ==
    LET legal == legalMoveSet(state)
    IN  (\E m \in legal : GameWinning(state, m, variant)) =>
            /\ \A blunder \in BOOLEAN :
                  \A m \in pickMove(state, "hard", variant, blunder) :
                      m # NoMove /\ GameWinning(state, m, variant)
            /\ \A m \in legal :
                  ~GameWinning(state, m, variant) =>
                      scoreMove(state, m, variant) < Pts(1000) - Pts(3)

\* C24 witness: a game-winning move among other legal moves, one of which
\* wins its board without winning the game.
C24_Witness ==
    LET legal == legalMoveSet(state)
    IN  /\ \E m \in legal : GameWinning(state, m, variant)
        /\ \E m \in legal :
              /\ ~GameWinning(state, m, variant)
              /\ scoreMove(state, m, variant) >= Pts(100)

\* C25: at easy, when the blunder roll does not fire and a legal move wins
\* the game, pickMove returns a game-winning move, and no legal move that
\* does not win the game scores within 50 of 1000.
C25_EasyTakesWin ==
    LET legal == legalMoveSet(state)
    IN  (\E m \in legal : GameWinning(state, m, variant)) =>
            /\ \A m \in pickMove(state, "easy", variant, FALSE) :
                  m # NoMove /\ GameWinning(state, m, variant)
            /\ \A m \in legal :
                  ~GameWinning(state, m, variant) =>
                      scoreMove(state, m, variant) < Pts(1000) - Pts(50)

\* C25 witness: a game-winning move exists and the blunder could return a
\* move that does not win.
C25_Witness ==
    /\ \E m \in legalMoveSet(state) : GameWinning(state, m, variant)
    /\ \E m \in pickMove(state, "easy", variant, TRUE) :
          ~GameWinning(state, m, variant)

\* C26: without the easy blunder, pickMove returns exactly the legal moves
\* whose score is at least best - tolerance, best being the greatest score
\* of a legal move and tolerance 50 for easy, 10 for medium, 3 for hard.
C26_Band ==
    LET scored == scoredMoves(state, variant)
        tolerance == [difficulty \in Difficulties |->
                         CASE difficulty = "easy" -> 50
                           [] difficulty = "medium" -> 10
                           [] difficulty = "hard" -> 3]
    IN  \A difficulty \in Difficulties, blunder \in BOOLEAN :
            (difficulty = "easy" => ~blunder) =>
                LET picks == pickMove(state, difficulty, variant, blunder)
                IN  \A r \in scored :
                        Move(r.bi, r.ci) \in picks <=>
                            \A q \in scored :
                                r.score >= q.score - Pts(tolerance[difficulty])

\* C26 witness: the three difficulties return three different sets of moves.
C26_Witness ==
    LET easy   == pickMove(state, "easy", variant, FALSE)
        medium == pickMove(state, "medium", variant, FALSE)
        hard   == pickMove(state, "hard", variant, FALSE)
    IN  /\ easy # medium
        /\ medium # hard
        /\ Cardinality(easy) < Len(legalMoves(state))

\* C27: for a legal move scoreMove returns exactly 1000 when, and only
\* when, the mark wins its board and that win makes the mover the meta
\* result; the terms of any other move add up to less than 1000.
C27_Sentinel ==
    \A m \in legalMoveSet(state) :
        LET score == scoreMove(state, m, variant)
        IN  /\ score = Pts(1000) <=> GameWinning(state, m, variant)
            /\ ~GameWinning(state, m, variant) => score < Pts(1000)

\* C27 witness: a move that would stop the opponent from winning the game
\* and is not itself a win: its terms pass 500.
C27_Witness ==
    \E m \in legalMoveSet(state) :
        /\ ~GameWinning(state, m, variant)
        /\ scoreMove(state, m, variant) >= Pts(500)

\* the meta lines through board bi on which the mover has won exactly one
\* of the two other boards
EmergingLines(s, bi) ==
    {i \in 1..8 :
        /\ \E k \in 1..3 : LINES[i][k] = bi
        /\ Cardinality({k \in 1..3 :
               LINES[i][k] # bi /\ s.local[LINES[i][k]] = s.turn}) = 1}

\* the legal moves that win their board and not the game
BoardWinning(s, v) ==
    {m \in legalMoveSet(s) :
        /\ applyMove(s, m, v).local[m.bi] = s.turn
        /\ ~GameWinning(s, m, v)}

\* the score of a move without step 2
OtherTerms(s, m, v) ==
    blockScore(s, m, v) + lineScore(s, m) + positionScore(m)
        + sendScore(s, m) + openScore(s, m)

\* C28 (as claimed): in classic mode a move that wins its board without
\* winning the game receives, besides the 100, one bonus of 50 when the board
\* lies on a meta line where the mover has exactly one other board, however
\* many such lines there are.
C28_SingleBonus ==
    variant = "classic" =>
        \A m \in BoardWinning(state, variant) :
            scoreMove(state, m, variant) =
                Pts(100)
                + (IF EmergingLines(state, m.bi) # {} THEN Pts(50) ELSE 0)
                + OtherTerms(state, m, variant)

\* C28 (amended): in classic mode a move that wins its board without winning
\* the game receives, besides the 100, a bonus of 50 for each meta line
\* through the board on which the mover has exactly one other board.
C28_BonusPerLine ==
    variant = "classic" =>
        \A m \in BoardWinning(state, variant) :
            scoreMove(state, m, variant) =
                Pts(100)
                + Pts(50) * Cardinality(EmergingLines(state, m.bi))
                + OtherTerms(state, m, variant)

\* C28 witness: a classic move wins a board that lies on two meta lines with
\* one board of the mover each.
C28_Witness ==
    /\ variant = "classic"
    /\ \E m \in BoardWinning(state, variant) :
          Cardinality(EmergingLines(state, m.bi)) >= 2

\* the legal moves that complete three in a row for the mover on their board
LineCompleting(s) ==
    {m \in legalMoveSet(s) :
        \E i \in 1..8 :
            /\ \E k \in 1..3 : LINES[i][k] = m.ci
            /\ \A k \in 1..3 :
                  LINES[i][k] # m.ci => s.boards[m.bi][LINES[i][k]] = s.turn}

\* what step 8 takes from a move: 20 when the opponent is sent to a decided
\* board, else 25 for each line of the target board on which the opponent
\* has two marks and the mover none
SendPenalty(s, m) ==
    IF s.local[m.ci] # Null THEN 20
    ELSE 25 * Cardinality({i \in 1..8 :
                 /\ Cardinality({k \in 1..3 :
                        s.boards[m.ci][LINES[i][k]] = other(s.turn)}) = 2
                 /\ \A k \in 1..3 : s.boards[m.ci][LINES[i][k]] # s.turn})

\* C29 (as claimed): in classic mode every legal move that completes three
\* in a row for the mover on its board scores at least 100.
C29_AtLeast100 ==
    variant = "classic" =>
        \A m \in LineCompleting(state) :
            scoreMove(state, m, variant) >= Pts(100)

\* C29 (amended): in classic mode every legal move that completes three in
\* a row for the mover on its board scores at least 100 less the penalty of
\* step 8 for the board it sends the opponent to, and so at least 100 where
\* that penalty is zero.
C29_AtLeast100LessPenalty ==
    variant = "classic" =>
        \A m \in LineCompleting(state) :
            scoreMove(state, m, variant) >= Pts(100) - Pts(SendPenalty(state, m))

\* C29 witness: a classic move completes three in a row and scores below 100.
C29_Witness ==
    /\ variant = "classic"
    /\ \E m \in LineCompleting(state) :
          /\ scoreMove(state, m, variant) < Pts(100)
          /\ SendPenalty(state, m) > 0

\* C30: shouldDouble is false wherever canDouble is false, so that it never
\* asks for an offer offerDouble would ignore; where canDouble holds it is
\* true exactly when evaluatePosition for the player to move is above
\* 15 + 3 * cubeValue and the random draw exceeds 0.2.
C30_ShouldDouble ==
    \A willing \in BOOLEAN :
        LET answered == shouldDouble(state, variant, willing)
        IN  /\ (\/ state.result # Null
                \/ state.pendingDouble # Null
                \/ state.cubeValue >= 64
                \/ state.cubeOwner = other(state.turn)) => ~answered
            /\ answered => offerDouble(state) # state
            /\ canDouble(state) =>
                  (answered <=>
                      /\ evaluatePosition(state, state.turn, variant)
                             > 15 + 3 * state.cubeValue
                      /\ willing)

\* C30 witness: the player to move is far enough ahead to double, in a game
\* still undecided, and may not: canDouble is false.
C30_Witness ==
    /\ state.result = Null
    /\ ~canDouble(state)
    /\ evaluatePosition(state, state.turn, variant) > 15 + 3 * state.cubeValue

\* C31: shouldAcceptDouble is true with no double pending; with a double
\* pending it is true exactly when evaluatePosition for the player who did
\* not offer is above -40 + cubeValue; evaluatePosition lies in [-100, 100].
C31_ShouldAccept ==
    /\ state.pendingDouble = Null => shouldAcceptDouble(state, variant)
    /\ state.pendingDouble # Null =>
          (shouldAcceptDouble(state, variant) <=>
              evaluatePosition(state, other(state.pendingDouble), variant)
                  > state.cubeValue - 40)
    /\ \A p \in Players :
          /\ evaluatePosition(state, p, variant) >= 0 - 100
          /\ evaluatePosition(state, p, variant) <= 100

\* C31 witness: a double is pending and the answer is to decline, although
\* the doubler's own position would be accepted.
C31_Witness ==
    /\ state.pendingDouble # Null
    /\ ~shouldAcceptDouble(state, variant)
    /\ evaluatePosition(state, state.pendingDouble, variant)
           > state.cubeValue - 40

\* the boards still undecided
Undecided(s) == {b \in Idx : s.local[b] = Null}

\* C32: the player to move is never stuck: while the result is undecided
\* legalMoves is not empty, because nextBoard is null or the index of an
\* undecided board with an empty cell.
C32_NeverStuck ==
    state.result = Null =>
        /\ Len(legalMoves(state)) > 0
        /\ \/ /\ state.nextBoard = NoBoard
              /\ \E b \in Undecided(state), c \in Idx : state.boards[b][c] = Null
           \/ /\ state.nextBoard \in Undecided(state)
              /\ \E c \in Idx : state.boards[state.nextBoard][c] = Null

\* C32 witness: an undecided game with two boards left undecided and a
\* free choice between them.
C32_Witness ==
    /\ state.result = Null
    /\ state.nextBoard = NoBoard
    /\ Cardinality(Undecided(state)) <= 2

\* the empty cells of all boards
EmptyCells(s) == 81 - Marks(s, "X") - Marks(s, "O")

\* what is left to do in a game: three for each empty cell, two more while
\* a double may be offered, one while an offer waits for its answer
Rank(s) ==
    3 * EmptyCells(s)
        + (IF s.pendingDouble # Null THEN 1
           ELSE IF canDouble(s) THEN 2
           ELSE 0)

\* C33: every game terminates: each effective transition starts in an
\* undecided state and leaves less to do, a move filling one of the 81
\* cells and an accepted double being one of at most 6 doublings up to 64;
\* a state in which the game is undecided still has a legal move, so a
\* sequence of transitions ends only with the result decided.
C33_Terminates ==
    /\ [](state.result = Null => Len(legalMoves(state)) > 0)
    /\ [][ /\ state.result = Null
           /\ Rank(state') < Rank(state)
           /\ Rank(state') >= 0
           /\ ply' = Marks(state', "X") + Marks(state', "O")
           /\ ply' <= 81
           /\ state'.cubeValue \in {state.cubeValue, 2 * state.cubeValue}
           /\ state'.cubeValue <= 64 ]_vars

\* C33 witness: a game played to its end with the cube at 64, after six
\* accepted doubles.
C33_Witness ==
    /\ state.result # Null
    /\ state.result = computeBigResult(state.local, variant)
    /\ state.cubeValue = 64
    /\ Rank(state) = 3 * EmptyCells(state)

\* C34: a pending double implies that the result is undecided, that the
\* offerer is the player to move, that cubeValue is below 64 and that the
\* cube is centred or the offerer's; a decided game has no pending double.
C34_PendingDouble ==
    /\ state.pendingDouble # Null =>
          /\ state.result = Null
          /\ state.pendingDouble = state.turn
          /\ state.cubeValue < 64
          /\ state.cubeOwner \in {Null, state.pendingDouble}
    /\ state.result # Null => state.pendingDouble = Null

\* C34 witness: the owner of the cube has offered the last double there is,
\* from 32 to 64.
C34_Witness ==
    /\ state.pendingDouble # Null
    /\ state.cubeOwner = state.pendingDouble
    /\ state.cubeValue = 32

\* C35: the X marks on all boards are as many as the O marks or one more;
\* while the result is undecided X is to move exactly when the counts are
\* equal; offerDouble and acceptDouble do not change whose turn it is.
C35_MarksAlternate ==
    LET xs == Marks(state, "X")
        os == Marks(state, "O")
    IN  /\ xs = os \/ xs = os + 1
        /\ state.result = Null => (state.turn = "X" <=> xs = os)
        /\ offerDouble(state).turn = state.turn
        /\ acceptDouble(state).turn = state.turn

\* C35 witness: O to move, one mark behind, after a double was accepted.
C35_Witness ==
    /\ state.result = Null
    /\ state.turn = "O"
    /\ Marks(state, "X") = Marks(state, "O") + 1
    /\ state.cubeValue >= 2
    /\ state.pendingDouble = Null

\* C36: after an accepted double no double can be offered until a move is
\* applied; an accepted double on a cube that is owned is offered by the
\* owner, the player who accepted the double before, and hands the cube to
\* the other player, so two accepted doubles in a row are never offered by
\* the same player; cubeOwner is null exactly when cubeValue is 1.
C36_CubeAlternates ==
    /\ [](state.cubeOwner = Null <=> state.cubeValue = 1)
    /\ [][ (state.pendingDouble # Null /\ state'.cubeValue # state.cubeValue) =>
              /\ ~canDouble(state')
              /\ offerDouble(state') = state'
              /\ state'.cubeOwner = other(state.pendingDouble)
              /\ state.cubeOwner # Null =>
                    /\ state.pendingDouble = state.cubeOwner
                    /\ state'.cubeOwner = other(state.cubeOwner) ]_vars

\* C36 witness: after a second accepted double the cube is back with the
\* player who offered the first, who is not to move.
C36_Witness ==
    /\ state.cubeValue = 4
    /\ state.result = Null
    /\ state.pendingDouble = Null
    /\ state.cubeOwner = other(state.turn)
    /\ ~canDouble(state)

\* C37 (as claimed): for every legal move that does not win the game,
\* scoreMove takes the 20 of the forwarding penalty exactly when applyMove of
\* the move leaves nextBoard null, also where the move itself decides the
\* board it forwards to (ci = bi).
C37_FreeChoiceAgrees ==
    \A m \in legalMoveSet(state) :
        ~GameWinning(state, m, variant) =>
            (sendScore(state, m) = 0 - Pts(20) <=>
                applyMove(state, m, variant).nextBoard = NoBoard)

\* C38: shouldDouble is false in every state with cubeValue at 32 or above,
\* on every random outcome, the position being worth at most 100 and the
\* threshold 15 + 3 * cubeValue; an offer of the AI is made at 16 or below
\* and so raises the cube to 32 at most.
C38_NoDoubleFrom32 ==
    \A willing \in BOOLEAN :
        /\ state.cubeValue >= 32 => ~shouldDouble(state, variant, willing)
        /\ shouldDouble(state, variant, willing) =>
              /\ state.cubeValue <= 16
              /\ acceptDouble(offerDouble(state)).cubeValue <= 32

\* C38 witness: the cube at 32 is the player's to offer, in a position good
\* enough for a double at 16.
C38_Witness ==
    /\ state.cubeValue = 32
    /\ canDouble(state)
    /\ evaluatePosition(state, state.turn, variant) > 15 + 3 * 16

\* C39: in the view model, under taps and scheduled calls in any order, a
\* mark is placed only on a state without a pending double: every offered
\* double is answered before the next mark.
C39_NoMarkWhilePending ==
    [][moveCount(state') > moveCount(state) => state.pendingDouble = Null]_vars

\* C40: in the view model, a scheduled performAIMove places a mark only
\* when it is the AI side's turn and the game is the one the call was
\* scheduled in, whatever restart, new game or undo did in between.
C40_AiPlaysOwnTurn ==
    [][PerformAIMove /\ moveCount(state') > moveCount(state)
          => /\ state.turn = viewModel.aiSide
             /\ Head(viewModel.aiMoveCalls)]_vars

====
